---------------------------- MODULE Spec2Model ----------------------------
(***************************************************************************)
(* A model of the two batch audits of the qrtracking repository:           *)
(*                                                                         *)
(*   verify_all_participants.py  DB records against the badge range and    *)
(*                               the QR-code files                         *)
(*   verify_final_data.py        DB records against the spreadsheet roster *)
(*                                                                         *)
(* Python values are tagged records: [t |-> "none"] is None / SQL NULL,    *)
(* [t |-> "nan"] a missing spreadsheet cell, [t |-> "str", s |-> chars] a  *)
(* string (a sequence of one-character strings), [t |-> "int", n |-> k]    *)
(* an integer, [t |-> "long", d |-> digits] an integer held by its decimal *)
(* digits (a phone number exceeds the integers of the model checker),      *)
(* [t |-> "float", d |-> digits] the float digits.0, and                   *)
(* [t |-> "raise", exc |-> name] the outcome of a call that raised.        *)
(***************************************************************************)
EXTENDS Integers, Sequences, FiniteSets, TLC

(***************************************************************************)
(* Bounds of the model.  CohortSize stands for the 417 of the scripts      *)
(* (range(1, 418)); the sample ranges of the scripts are kept relative to  *)
(* it.                                                                     *)
(***************************************************************************)
CohortSize == 2
MaxRecords == 2
MaxRows == 2
MaxFieldRows == 1
MaxValidityRecords == 1
MaxStrLen == 6

(***************************************************************************)
(* Program constants.                                                      *)
(***************************************************************************)
UuidLen == 36
UuidDashes == 4
MinAge == 1
MaxAge == 120
SampleSize == 5
PhoneDigits == 10

PREFIX == <<"P","A","L","I","T","A","N","A","_","Y","A","T","R","A","_">>

----------------------------------------------------------------------------
(* Python values *)

PyNone == [t |-> "none"]
NaN == [t |-> "nan"]
StrV(s) == [t |-> "str", s |-> s]
IntV(n) == [t |-> "int", n |-> n]
LongV(d) == [t |-> "long", d |-> d]
FloatV(d) == [t |-> "float", d |-> d]
Raise(e) == [t |-> "raise", exc |-> e]

\* bool(v): None, '' and 0 are false
Truthy(v) ==
    CASE v.t = "none" -> FALSE
      [] v.t = "str" -> v.s # <<>>
      [] v.t = "int" -> v.n # 0
      [] v.t = "long" -> v.d # <<"0">>
      [] v.t = "float" -> v.d # <<"0">>
      [] OTHER -> TRUE

\* pd.isna(v): a missing cell, and None
IsNa(v) == v.t \in {"nan", "none"}

----------------------------------------------------------------------------
(* Strings: sequences of characters *)

AsciiOrder ==
    <<"\t", " ", "+", "-", ".", "0", "1", "2", "3", "4", "5", "6", "7", "8", "9",
      "A", "B", "C", "D", "E", "F", "G", "H", "I", "J", "K", "L", "M", "N", "O",
      "P", "Q", "R", "S", "T", "U", "V", "W", "X", "Y", "Z", "_",
      "a", "b", "c", "d", "e", "f", "g", "h", "i", "j", "k", "l", "m", "n", "o",
      "p", "q", "r", "s", "t", "u", "v", "w", "x", "y", "z">>

Chars == {AsciiOrder[i] : i \in 1..Len(AsciiOrder)}
CodeOf == [c \in Chars |-> CHOOSE i \in 1..Len(AsciiOrder) : AsciiOrder[i] = c]
Code(c) == CodeOf[c]

Digits == <<"0", "1", "2", "3", "4", "5", "6", "7", "8", "9">>
DigitChars == {Digits[i] : i \in 1..Len(Digits)}
IsDigit(c) == c \in DigitChars
DigitVal(c) == Code(c) - Code("0")

Whitespace == {" ", "\t"}

LowerOf ==
    [c \in Chars |-> IF Code(c) >= Code("A") /\ Code(c) <= Code("Z")
                     THEN AsciiOrder[Code(c) - Code("A") + Code("a")] ELSE c]
UpperOf ==
    [c \in Chars |-> IF Code(c) >= Code("a") /\ Code(c) <= Code("z")
                     THEN AsciiOrder[Code(c) - Code("a") + Code("A")] ELSE c]
LowerChar(c) == LowerOf[c]
UpperChar(c) == UpperOf[c]

\* str.lower(), str.upper()
Lower(s) == [i \in 1..Len(s) |-> LowerChar(s[i])]
Upper(s) == [i \in 1..Len(s) |-> UpperChar(s[i])]

\* str.strip(): leading and trailing whitespace removed
RECURSIVE LStrip(_)
LStrip(s) == IF s # <<>> /\ Head(s) \in Whitespace THEN LStrip(Tail(s)) ELSE s
RECURSIVE RStrip(_)
RStrip(s) ==
    IF s # <<>> /\ s[Len(s)] \in Whitespace THEN RStrip(SubSeq(s, 1, Len(s) - 1)) ELSE s
Strip(s) == RStrip(LStrip(s))

\* sub occurs in s at position i
OccursAt(s, sub, i) ==
    /\ i + Len(sub) - 1 <= Len(s)
    /\ \A k \in 1..Len(sub) : s[i + k - 1] = sub[k]

\* sub in s
Contains(s, sub) == \E i \in 1..(Len(s) - Len(sub) + 1) : OccursAt(s, sub, i)

\* s.replace(sub, new): the non-overlapping occurrences, left to right (sub non-empty)
RECURSIVE Replace(_, _, _)
Replace(s, sub, new) ==
    IF s = <<>> THEN <<>>
    ELSE IF OccursAt(s, sub, 1)
         THEN new \o Replace(SubSeq(s, Len(sub) + 1, Len(s)), sub, new)
         ELSE <<Head(s)>> \o Replace(Tail(s), sub, new)

\* s[-n:]
LastChars(s, n) == IF Len(s) <= n THEN s ELSE SubSeq(s, Len(s) - n + 1, Len(s))

\* s.count(c)
Count(s, c) == Cardinality({i \in 1..Len(s) : s[i] = c})

\* s.split(sep)[0]
RECURSIVE FirstPart(_, _)
FirstPart(s, sep) ==
    IF s = <<>> \/ Head(s) = sep THEN <<>> ELSE <<Head(s)>> \o FirstPart(Tail(s), sep)

\* s.isdigit()
IsDigitStr(s) == s # <<>> /\ \A i \in 1..Len(s) : IsDigit(s[i])

RECURSIVE DigitsValue(_)
DigitsValue(s) ==
    IF s = <<>> THEN 0 ELSE 10 * DigitsValue(SubSeq(s, 1, Len(s) - 1)) + DigitVal(s[Len(s)])

\* the digits of an int literal: digit groups joined by single underscores
IsIntBody(s) ==
    /\ s # <<>>
    /\ IsDigit(s[1]) /\ IsDigit(s[Len(s)])
    /\ \A i \in 1..Len(s) : IsDigit(s[i]) \/ s[i] = "_"
    /\ \A i \in 1..(Len(s) - 1) : ~(s[i] = "_" /\ s[i + 1] = "_")

\* a parsed number with its sign applied
Signed(sign, v) == IF v.t = "int" /\ sign = "-" THEN IntV(0 - v.n) ELSE v

\* a number text without its sign
Unsigned(t) == IF t # <<>> /\ t[1] \in {"+", "-"} THEN Tail(t) ELSE t
SignOf(t) == IF t # <<>> /\ t[1] = "-" THEN "-" ELSE "+"

IntBodyValue(body) ==
    IF IsIntBody(body) THEN IntV(DigitsValue(Replace(body, <<"_">>, <<>>)))
    ELSE Raise("ValueError")

ParseStrippedInt(t) == Signed(SignOf(t), IntBodyValue(Unsigned(t)))

\* int(s) of a string: surrounding whitespace and a sign allowed, else ValueError
ParseInt(s) == ParseStrippedInt(Strip(s))

DecimalValue(whole, frac) ==
    IF /\ \A i \in 1..Len(whole) : IsDigit(whole[i])
       /\ \A i \in 1..Len(frac) : IsDigit(frac[i])
       /\ whole \o frac # <<>>
    THEN IntV(DigitsValue(whole))
    ELSE Raise("ValueError")

DecimalParts(body, whole) ==
    DecimalValue(whole,
                 IF Len(whole) < Len(body) THEN SubSeq(body, Len(whole) + 2, Len(body))
                 ELSE <<>>)

DecimalBodyValue(body) == DecimalParts(body, FirstPart(body, "."))

ParseStrippedDecimal(t) == Signed(SignOf(t), DecimalBodyValue(Unsigned(t)))

\* int(float(s)) for the decimal forms digits[.digits], the fraction dropped:
\* the exponent, inf and nan forms do not occur in the inputs of the model
ParseFloatToInt(s) == ParseStrippedDecimal(Strip(s))

\* str(n) of a natural number
RECURSIVE NatToStr(_)
NatToStr(n) == IF n < 10 THEN <<Digits[n + 1]>> ELSE NatToStr(n \div 10) \o <<Digits[(n % 10) + 1]>>

\* str(n) of an int
IntToStr(n) == IF n < 0 THEN <<"-">> \o NatToStr(0 - n) ELSE NatToStr(n)

\* str(v)
PyStr(v) ==
    CASE v.t = "str" -> v.s
      [] v.t = "int" -> IntToStr(v.n)
      [] v.t = "long" -> v.d
      [] v.t = "float" -> v.d \o <<".", "0">>
      [] v.t = "none" -> <<"N", "o", "n", "e">>
      [] OTHER -> <<"n", "a", "n">>

\* lexicographic order of strings by character code
RECURSIVE StrLeq(_, _)
StrLeq(a, b) ==
    IF a = <<>> THEN TRUE
    ELSE IF b = <<>> THEN FALSE
    ELSE IF Head(a) = Head(b) THEN StrLeq(Tail(a), Tail(b))
    ELSE Code(Head(a)) < Code(Head(b))


\* s.endswith(suffix)
EndsWith(s, suffix) ==
    Len(s) >= Len(suffix) /\ SubSeq(s, Len(s) - Len(suffix) + 1, Len(s)) = suffix

----------------------------------------------------------------------------
(* Key derivation and the badge index (both scripts) *)

\* extract_badge_number: int() of the token with every occurrence of the prefix
\* removed, None for a token that is false or does not contain the prefix
extract_badge_number(qr_token) ==
    IF Truthy(qr_token) /\ Contains(qr_token.s, PREFIX)
    THEN ParseInt(Replace(qr_token.s, PREFIX, <<>>))
    ELSE PyNone

\* a variant of IndexPut that keeps the first record of a badge
\* (by_badge.setdefault(badge, p))
IndexPutFirstWins(by, badge, p) ==
    IF badge \in DOMAIN by THEN by
    ELSE [k \in DOMAIN by \cup {badge} |-> IF k = badge THEN p ELSE by[k]]
\* by_badge[badge] = p: a later record replaces an earlier one
IndexPut(by, badge, p) ==
    [k \in DOMAIN by \cup {badge} |-> IF k = badge THEN p ELSE by[k]]

\* if badge: 0 and None are not indexed
Indexed(badge) == Truthy(badge)

\* the loop "for p in participants" that builds the index, from record i on; an
\* exception of extract_badge_number leaves the loop
RECURSIVE IndexRecords(_, _, _)
IndexRecords(ps, i, by) ==
    IF i > Len(ps) THEN [exc |-> "none", index |-> by]
    ELSE LET badge == extract_badge_number(ps[i].qrToken)
         IN  IF badge.t = "raise" THEN [exc |-> badge.exc, index |-> by]
             ELSE IF Indexed(badge) THEN IndexRecords(ps, i + 1, IndexPut(by, badge.n, ps[i]))
             ELSE IndexRecords(ps, i + 1, by)

EmptyDict == <<>>

----------------------------------------------------------------------------
(* verify_all_participants.py: the checks *)

Cohort == 1..CohortSize

\* a variant of NotIndexed that takes an index without any record for an
\* index that holds every badge (if not by_badge)
NotIndexedUnlessEmpty(i, by) == i \notin DOMAIN by /\ DOMAIN by # {}
\* if i not in by_badge
NotIndexed(i, by) == i \notin DOMAIN by

\* missing_badges: for i in range(1, 418): if i not in by_badge: append(i)
RECURSIVE MissingFrom(_, _)
MissingFrom(i, by) ==
    IF i > CohortSize THEN <<>>
    ELSE (IF NotIndexed(i, by) THEN <<i>> ELSE <<>>) \o MissingFrom(i + 1, by)

\* the badge of a file name: the part before the first "_" when it is all digits
FileBadge(name) ==
    LET part == FirstPart(name, "_")
    IN  IF IsDigitStr(part) THEN IntV(DigitsValue(part)) ELSE PyNone

\* sorted(file_badges): the badges of the listed files, ascending, one per file
RECURSIVE SortedBadges(_)
SortedBadges(names) ==
    IF names = {} THEN <<>>
    ELSE LET lo == CHOOSE n \in names : \A m \in names : FileBadge(n).n <= FileBadge(m).n
         IN  <<FileBadge(lo).n>> \o SortedBadges(names \ {lo})

\* verify_qr_code_files: (None, error) without the directory, else (badges, None)
verify_qr_code_files(dir) ==
    IF ~dir.exists THEN [file_badges |-> PyNone, error |-> "QR codes directory not found"]
    ELSE LET pngs == {n \in dir.files : EndsWith(n, <<".", "p", "n", "g">>)}
             numbered == {n \in pngs : FileBadge(n).t = "int"}
         IN  [file_badges |-> [t |-> "list", l |-> SortedBadges(numbered)], error |-> "None"]

InList(x, l) == \E k \in 1..Len(l) : l[k] = x

\* [i for i in range(1, 418) if i not in file_badges]
RECURSIVE MissingFilesFrom(_, _)
MissingFilesFrom(i, l) ==
    IF i > CohortSize THEN <<>>
    ELSE (IF ~InList(i, l) THEN <<i>> ELSE <<>>) \o MissingFilesFrom(i + 1, l)

\* the missing critical fields of a record, in the order name, uuid, qrToken
NameMissing(p) == ~Truthy(p.name) \/ Strip(PyStr(p.name)) = <<>>
MissingFields(p) ==
    (IF NameMissing(p) THEN <<"name">> ELSE <<>>)
    \o (IF ~Truthy(p.uuid) THEN <<"uuid">> ELSE <<>>)
    \o (IF ~Truthy(p.qrToken) THEN <<"qrToken">> ELSE <<>>)

\* incomplete: for badge in range(1, 418), the indexed records with a missing field
RECURSIVE IncompleteFrom(_, _)
IncompleteFrom(badge, by) ==
    IF badge > CohortSize THEN <<>>
    ELSE (IF badge \in DOMAIN by /\ MissingFields(by[badge]) # <<>>
          THEN <<[badge |-> badge, name |-> by[badge].name, fields |-> MissingFields(by[badge])]>>
          ELSE <<>>) \o IncompleteFrom(badge + 1, by)

\* not uuid or len(uuid) != 36 or uuid.count('-') != 4
UuidInvalid(uuid) ==
    ~Truthy(uuid) \/ Len(uuid.s) # UuidLen \/ Count(uuid.s, "-") # UuidDashes

\* expected_token = f"PALITANA_YATRA_{badge}"
ExpectedToken(badge) == StrV(PREFIX \o IntToStr(badge))

\* int(v)
PyInt(v) ==
    CASE v.t = "int" -> v
      [] v.t = "str" -> ParseInt(v.s)
      [] v.t \in {"float", "long"} -> IntV(DigitsValue(v.d))
      [] OTHER -> Raise("TypeError")

\* a variant of AgeOutOfRange that rejects the upper boundary (age >= 120)
AgeOutOfRangeOffByOne(age) == age < MinAge \/ age >= MaxAge
\* age < 1 or age > 120
AgeOutOfRange(age) == age < MinAge \/ age > MaxAge

\* the age issue of a record: none for a null age, "invalid age" out of range,
\* "non-numeric age" when int() raises (the bare except)
ParsedAgeIssues(age) ==
    IF age.t = "raise" THEN <<"non-numeric age">>
    ELSE IF AgeOutOfRange(age.n) THEN <<"invalid age">>
    ELSE <<>>
AgeIssues(v) == IF v.t = "none" THEN <<>> ELSE ParsedAgeIssues(PyInt(v))

\* the issues of the record indexed at badge, in the order uuid, qrToken, age
ValidityIssues(badge, p) ==
    (IF UuidInvalid(p.uuid) THEN <<"invalid UUID">> ELSE <<>>)
    \o (IF p.qrToken # ExpectedToken(badge) THEN <<"wrong qrToken">> ELSE <<>>)
    \o AgeIssues(p.age)

\* invalid: for badge in range(1, 418), the indexed records with an issue
RECURSIVE InvalidFrom(_, _)
InvalidFrom(badge, by) ==
    IF badge > CohortSize THEN <<>>
    ELSE (IF badge \in DOMAIN by /\ ValidityIssues(badge, by[badge]) # <<>>
          THEN <<[badge |-> badge, name |-> by[badge].name, issues |-> ValidityIssues(badge, by[badge])]>>
          ELSE <<>>) \o InvalidFrom(badge + 1, by)

\* the badges of the two sample listings: range(1, 6) and range(413, 418), the
\* first and the last SampleSize badges of the cohort
Min(a, b) == IF a < b THEN a ELSE b
Max(a, b) == IF a > b THEN a ELSE b
SampleBadges ==
    (1..Min(SampleSize, CohortSize)) \cup (Max(1, CohortSize - SampleSize + 1)..CohortSize)

\* p['uuid'][:8] and p['uuid'][-4:]: a TypeError when the uuid is not a string
SampleRaises(by) == \E badge \in SampleBadges \cap DOMAIN by : by[badge].uuid.t # "str"

----------------------------------------------------------------------------
(* verify_final_data.py: the normalizers and compare_data *)

\* normalize_name: '' for a missing value, else str(name).strip().lower()
normalize_name(name) ==
    IF IsNa(name) THEN <<>> ELSE Lower(Strip(PyStr(name)))

\* normalize_phone: '' for a missing value, else the text stripped, without
\* spaces, hyphens and '+91', cut to its last 10 characters
normalize_phone(phone) ==
    IF IsNa(phone) THEN <<>>
    ELSE LastChars(
           Replace(Replace(Replace(Strip(PyStr(phone)), <<" ">>, <<>>), <<"-">>, <<>>),
                   <<"+", "9", "1">>, <<>>),
           PhoneDigits)

\* normalize_blood_group: '' for a missing value, else stripped, upper-cased,
\* without spaces
normalize_blood_group(bg) ==
    IF IsNa(bg) THEN <<>> ELSE Replace(Upper(Strip(PyStr(bg))), <<" ">>, <<>>)

\* str(cell).strip() if not pd.isna(cell) else ''
CellText(cell) == IF IsNa(cell) THEN <<>> ELSE Strip(PyStr(cell))

\* str(value).strip() if value else ''
DbText(value) == IF Truthy(value) THEN Strip(PyStr(value)) ELSE <<>>

\* badge = int(row[badge_col]) if not pd.isna(row[badge_col]) else None
RowBadge(row) == IF IsNa(row.badge) THEN PyNone ELSE PyInt(row.badge)

\* excel_age: None for a missing cell and for a text int(float()) rejects (the
\* bare except), else the number left after 'years' / 'year' is removed
NoneIfRaised(age) == IF age.t = "raise" THEN PyNone ELSE age
ExcelAge(cell) ==
    IF IsNa(cell) THEN PyNone
    ELSE NoneIfRaised(ParseFloatToInt(
             Strip(Replace(Replace(Lower(Strip(PyStr(cell))),
                                   <<"y", "e", "a", "r", "s">>, <<>>),
                           <<"y", "e", "a", "r">>, <<>>))))

\* a == b of two Python values: numbers by value, the rest by type and content
PyEq(a, b) ==
    IF a.t = "int" /\ b.t \in {"float", "long"} THEN IntToStr(a.n) = b.d
    ELSE IF b.t = "int" /\ a.t \in {"float", "long"} THEN IntToStr(b.n) = a.d
    ELSE a = b

\* if normalize_name(excel_name) != normalize_name(db_name)
NameIssue(excel_name, db_name) ==
    IF normalize_name(StrV(excel_name)) # normalize_name(StrV(db_name))
    THEN <<"Name mismatch">> ELSE <<>>

\* a variant of AgeIssue without the elif branch: an age the DB lacks is
\* not reported
AgeIssueNoMissing(excel_age, db_age) ==
    IF excel_age.t # "none" /\ db_age.t # "none" /\ ~PyEq(excel_age, db_age)
    THEN <<"Age mismatch">> ELSE <<>>
\* the age comparison: a mismatch when both sides have a value, a distinct
\* message when only the roster has one
AgeIssue(excel_age, db_age) ==
    IF excel_age.t # "none" /\ db_age.t # "none"
    THEN (IF ~PyEq(excel_age, db_age) THEN <<"Age mismatch">> ELSE <<>>)
    ELSE IF excel_age.t # "none" /\ db_age.t = "none" THEN <<"Age missing in DB">>
    ELSE <<>>

\* the blood group comparison, reported only if Excel has a value
BloodIssue(excel_blood, db_blood) ==
    IF /\ normalize_blood_group(StrV(excel_blood)) # normalize_blood_group(StrV(db_blood))
       /\ excel_blood # <<>>
    THEN <<"Blood group mismatch">> ELSE <<>>

\* the emergency contact comparison, reported only if Excel has a value
EmergencyIssue(excel_emergency, db_emergency) ==
    IF excel_emergency # db_emergency /\ excel_emergency # <<>>
    THEN <<"Emergency contact mismatch">> ELSE <<>>

\* if excel_photo and not db_photo
PhotoIssue(excel_photo, db_photo) ==
    IF excel_photo # <<>> /\ db_photo = <<>> THEN <<"Photo missing in DB">> ELSE <<>>

\* the list "issues" of one roster row against its DB record; photo_col says
\* whether the sheet has a sixth column
RowIssues(row, db_record, photo_col) ==
    LET excel_name == CellText(row.name)
        excel_age == ExcelAge(row.age)
        excel_blood == CellText(row.blood)
        excel_emergency == normalize_phone(row.emergency)
        excel_photo == IF photo_col THEN CellText(row.photo) ELSE <<>>
        db_name == DbText(db_record.name)
        db_age == db_record.age
        db_blood == DbText(db_record.bloodGroup)
        db_emergency == normalize_phone(db_record.emergencyContact)
        db_photo == DbText(db_record.photoUri)
    IN  NameIssue(excel_name, db_name)
        \o AgeIssue(excel_age, db_age)
        \o BloodIssue(excel_blood, db_blood)
        \o EmergencyIssue(excel_emergency, db_emergency)
        \o PhotoIssue(excel_photo, db_photo)

\* the end of an iteration for a row found in the DB: a DATA_MISMATCH finding
\* if issues, else a match
ComparedOutcome(row, badge, db_record, issues) ==
    IF issues # <<>>
    THEN [kind |-> "finding", issues |-> issues,
          finding |-> [badge |-> badge, issue |-> "DATA_MISMATCH",
                       excel_name |-> CellText(row.name),
                       db_name |-> DbText(db_record.name),
                       details |-> issues]]
    ELSE [kind |-> "match", issues |-> issues]

BadgeOutcome(row, badge, by, photo_col) ==
    IF badge.t = "none" THEN [kind |-> "skipped"]
    ELSE IF badge.n \notin DOMAIN by
    THEN [kind |-> "finding",
          finding |-> [badge |-> badge.n, issue |-> "MISSING_IN_DB",
                       excel_name |-> CellText(row.name),
                       details |-> <<"not found in database">>]]
    ELSE ComparedOutcome(row, badge.n, by[badge.n], RowIssues(row, by[badge.n], photo_col))

\* one iteration of "for idx, row in excel_df.iterrows()": the row is skipped
\* (no badge), reported MISSING_IN_DB, reported DATA_MISMATCH, or a match
RowOutcome(row, by, photo_col) == BadgeOutcome(row, RowBadge(row), by, photo_col)

\* discrepancies.append / matches += 1 of one iteration, before the rest
AppendFirst(out, rest) == (IF out.kind = "finding" THEN <<out.finding>> ELSE <<>>) \o rest
Accumulate(out, rest) ==
    [discrepancies |-> AppendFirst(out, rest.discrepancies),
     matches |-> (IF out.kind = "match" THEN 1 ELSE 0) + rest.matches,
     row_issues |->
        <<IF out.kind = "match" \/ (out.kind = "finding" /\ out.finding.issue = "DATA_MISMATCH")
          THEN [t |-> "list", l |-> out.issues]
          ELSE PyNone>>
        \o rest.row_issues]

\* the row loop of compare_data from row i on: the discrepancies in the order
\* the rows are read, the number of matches, and per row its list "issues"
\* (None for a row skipped or missing in the DB)
RECURSIVE CompareRows(_, _, _, _)
CompareRows(rows, i, by, photo_col) ==
    IF i > Len(rows) THEN [discrepancies |-> <<>>, matches |-> 0, row_issues |-> <<>>]
    ELSE Accumulate(RowOutcome(rows[i], by, photo_col),
                    CompareRows(rows, i + 1, by, photo_col))

----------------------------------------------------------------------------
(* The inputs of the runs *)

\* ORDER BY qrToken: NULL first, then ascending text
TokenLeq(a, b) == a.t = "none" \/ (b.t # "none" /\ StrLeq(a.s, b.s))

\* the query results of at most n records of a set, in load order
Loaded(records, n) ==
    {ps \in UNION {[1..k -> records] : k \in 0..n} :
        \A i \in 1..(Len(ps) - 1) : TokenLeq(ps[i].qrToken, ps[i + 1].qrToken)}

\* the sheets of at most n rows of a set, in any order
Sheets(rows, n) == UNION {[1..k -> rows] : k \in 0..n}

Token(suffix) == StrV(PREFIX \o suffix)
CohortTokens == {Token(IntToStr(b)) : b \in Cohort}

OkUuid == [i \in 1..UuidLen |-> IF i \in {9, 14, 19, 24} THEN "-" ELSE "a"]

Participant(token, uuid, name, age, blood, emergency, photo) ==
    [qrToken |-> token, uuid |-> uuid, name |-> name, age |-> age,
     bloodGroup |-> blood, emergencyContact |-> emergency, photoUri |-> photo]

\* verify_all_participants: tokens well-formed and colliding ("01"), and
\* tokens deriving 0, not numeric, with text before the prefix, without the
\* prefix, empty, null
TokensAll == CohortTokens \cup {Token(<<"0", "1">>)}
TokensOdd ==
    {Token(<<"0">>), Token(<<"x">>), StrV(<<"x">> \o PREFIX \o <<"1">>), StrV(<<"1">>),
     StrV(<<>>), PyNone}

ProfilesAll ==
    {[uuid |-> StrV(OkUuid), name |-> StrV(<<"a">>)],
     [uuid |-> PyNone, name |-> StrV(<<"a">>)],
     [uuid |-> StrV(<<>>), name |-> PyNone],
     [uuid |-> StrV(OkUuid), name |-> StrV(<<" ">>)]}

RecordsAll ==
    {Participant(tok, pr.uuid, pr.name, PyNone, PyNone, PyNone, PyNone) :
        tok \in TokensAll, pr \in ProfilesAll}
    \cup {Participant(tok, StrV(OkUuid), StrV(<<"a">>), PyNone, PyNone, PyNone, PyNone) :
            tok \in TokensOdd}

\* the validity check: every uuid shape against every age
UuidsValidity ==
    {PyNone, StrV(<<>>), StrV(OkUuid), StrV(SubSeq(OkUuid, 1, UuidLen - 1)),
     StrV([OkUuid EXCEPT ![9] = "a"]), StrV([OkUuid EXCEPT ![1] = "-"])}

AgesValidity ==
    {PyNone, IntV(MinAge - 1), IntV(MinAge), IntV(MaxAge), IntV(MaxAge + 1),
     StrV(<<"a", "b", "c">>), StrV(<<"1", "6">>)}

RecordsValidity ==
    {Participant(tok, uuid, StrV(<<"a">>), age, PyNone, PyNone, PyNone) :
        tok \in {Token(<<"1">>), Token(<<"0", "1">>)},
        uuid \in UuidsValidity, age \in AgesValidity}

\* the QR-code directory: absent, or holding some of these files
BadgeFile(b) == IntToStr(b) \o <<"_", "a", ".", "p", "n", "g">>
CohortFiles == {BadgeFile(b) : b \in Cohort}
OtherFiles == {<<"x", "_", "1", ".", "p", "n", "g">>, <<"1", "_", "b", ".", "t", "x", "t">>}
NoDir == [exists |-> FALSE, files |-> {}]
Dir(files) == [exists |-> TRUE, files |-> files]
QrDirs ==
    {NoDir, Dir({}), Dir(OtherFiles), Dir(CohortFiles), Dir(CohortFiles \cup OtherFiles),
     Dir(CohortFiles \ {BadgeFile(1)}),
     Dir(CohortFiles \cup {<<"0", "1", "_", "c", ".", "p", "n", "g">>})}

\* verify_final_data, many rows: the badge varies, the blood group differs
\* from the DB's only in case and spacing
RosterRow(badge, name, age, blood, emergency, photo) ==
    [badge |-> badge, name |-> name, age |-> age, blood |-> blood,
     emergency |-> emergency, photo |-> photo]

RowsFinal ==
    {RosterRow(badge, StrV(<<"a">>), NaN, StrV(<<"o", " ", "+">>), NaN, NaN) :
        badge \in {NaN} \cup {IntV(b) : b \in 1..(CohortSize + 1)}}

RecordsFinal ==
    {Participant(tok, StrV(OkUuid), StrV(<<"A", " ">>), PyNone, blood, PyNone, PyNone) :
        tok \in CohortTokens \cup {Token(<<"0", "1">>), Token(<<"x">>)},
        blood \in {PyNone, StrV(<<"O", "+">>)}}

\* verify_final_data, field by field: every cell of a row for badge 1 against
\* DB records with and without values
Phone == <<"9", "8", "7", "6", "5", "4", "3", "2", "1", "0">>
RowsFields ==
    {RosterRow(IntV(1), name, age, blood, emergency, photo) :
        name \in {NaN, StrV(<<"a">>)},
        age \in {NaN, StrV(<<"1", "6", " ", "y", "e", "a", "r", "s">>), StrV(<<"a", "b", "c">>)},
        blood \in {NaN, StrV(<<"o", " ", "+">>)},
        emergency \in {NaN, StrV(<<"-">>), StrV(<<"+", "9", "1", " ">> \o Phone)},
        photo \in {NaN, StrV(<<"u">>)}}

DbName(has) == IF has THEN StrV(<<"A">>) ELSE PyNone
DbAge(has) == IF has THEN IntV(16) ELSE PyNone
DbBlood(has) == IF has THEN StrV(<<"O", "+">>) ELSE PyNone
DbPhone(has) == IF has THEN StrV(Phone) ELSE PyNone
DbPhoto(has) == IF has THEN StrV(<<"u">>) ELSE PyNone

RecordsFields ==
    {Participant(Token(<<"1">>), StrV(OkUuid), DbName(h[1]), DbAge(h[2]), DbBlood(h[3]),
                 DbPhone(h[4]), DbPhoto(h[5])) :
        h \in {<<FALSE, FALSE, FALSE, FALSE, FALSE>>, <<TRUE, TRUE, TRUE, TRUE, TRUE>>,
               <<TRUE, TRUE, FALSE, FALSE, FALSE>>, <<FALSE, FALSE, TRUE, TRUE, TRUE>>}}
    \cup {Participant(Token(<<"1">>), StrV(OkUuid), StrV(<<>>), IntV(17), StrV(<<>>),
                      StrV(<<>>), StrV(<<>>))}

\* the normalizers: every text over a small alphabet, numbers, missing values
RECURSIVE Texts(_, _)
Texts(alphabet, n) ==
    IF n = 0 THEN {<<>>}
    ELSE LET shorter == Texts(alphabet, n - 1)
         IN  shorter \cup {<<c>> \o s : c \in alphabet, s \in {x \in shorter : Len(x) = n - 1}}

NormAlphabet(fn) ==
    CASE fn = "name" -> {" ", "a", "A"}
      [] fn = "phone" -> {"+", "9", "1", "-"}
      [] fn = "blood" -> {" ", "\t", "o", "+"}

NormInputs(fn) ==
    {StrV(s) : s \in Texts(NormAlphabet(fn), MaxStrLen)}
    \cup {PyNone, NaN, IntV(0), IntV(16), LongV(Phone), LongV(<<"9", "1">> \o Phone),
          FloatV(Phone)}

----------------------------------------------------------------------------
(* State *)

VARIABLES
    db,              \* the rows the participants query returns, in its order
    sheet,           \* the rows of the 'Final Data' sheet, in sheet order
    photo_col,       \* whether the sheet has its sixth column
    pc,              \* the section of main() that runs next
    exc,             \* the exception that ended the run, "none" while it runs
    participants,    \* load_database_participants()
    excel_df,        \* load_excel_final_data()
    by_badge,        \* the badge index (by_badge, db_by_badge)
    missing_badges,
    qr_dir,          \* the QR-code directory as verify_qr_code_files found it
    file_badges,
    error,
    missing_files,
    incomplete,
    invalid,
    all_passed,
    summary,         \* the lines of the printed summary
    discrepancies,
    matches,
    row_issues,      \* per roster row, the list "issues" of its iteration
    report,          \* the report dict
    report_file,     \* the content of the report file
    returned,        \* the value main() returned
    norm_fn,         \* the normalizer applied
    norm_x,          \* its input
    norm_once,       \* normalize(x)
    norm_twice       \* normalize(normalize(x))

env == <<db, sheet, photo_col>>
control == <<pc, exc>>
loaded == <<participants, excel_df>>
all_locals ==
    <<by_badge, missing_badges, qr_dir, file_badges, error, missing_files, incomplete,
      invalid, all_passed, summary>>
final_locals == <<discrepancies, matches, row_issues, returned>>
output == <<report, report_file>>
norm == <<norm_fn, norm_x, norm_once, norm_twice>>
vars == <<env, control, loaded, all_locals, final_locals, output, norm>>

\* a name not yet bound
Unset == [t |-> "unset"]

Unbound ==
    /\ exc = "none"
    /\ participants = Unset /\ excel_df = Unset
    /\ by_badge = Unset /\ missing_badges = Unset /\ qr_dir = Unset
    /\ file_badges = Unset /\ error = Unset /\ missing_files = Unset
    /\ incomplete = Unset /\ invalid = Unset /\ all_passed = Unset /\ summary = Unset
    /\ discrepancies = Unset /\ matches = Unset /\ row_issues = Unset /\ returned = Unset
    /\ report = Unset /\ report_file = Unset
    /\ norm_once = Unset /\ norm_twice = Unset

NoNorm == norm_fn = "none" /\ norm_x = Unset

----------------------------------------------------------------------------
(* verify_all_participants.main *)

\* participants = load_database_participants()
Load ==
    /\ pc = "load" /\ exc = "none"
    /\ participants' = db
    /\ pc' = "index"
    /\ UNCHANGED <<env, exc, excel_df, all_locals, final_locals, output, norm>>

\* the lookup by badge number; a raising extract_badge_number ends the run
Index ==
    /\ pc = "index" /\ exc = "none"
    /\ LET r == IndexRecords(participants, 1, EmptyDict)
       IN  IF r.exc # "none"
           THEN exc' = r.exc /\ UNCHANGED <<pc, by_badge>>
           ELSE by_badge' = r.index /\ pc' = "presence" /\ UNCHANGED exc
    /\ UNCHANGED <<env, loaded, missing_badges, qr_dir, file_badges, error, missing_files,
                   incomplete, invalid, all_passed, summary, final_locals, output, norm>>

\* 1. BADGE NUMBER VERIFICATION
Presence ==
    /\ pc = "presence" /\ exc = "none"
    /\ missing_badges' = MissingFrom(1, by_badge)
    /\ pc' = "files"
    /\ UNCHANGED <<env, exc, loaded, by_badge, qr_dir, file_badges, error, missing_files,
                   incomplete, invalid, all_passed, summary, final_locals, output, norm>>

\* 2. QR CODE FILE VERIFICATION: the directory is read here
FileCheck ==
    /\ pc = "files" /\ exc = "none"
    /\ \E dir \in QrDirs :
         LET r == verify_qr_code_files(dir)
         IN  /\ qr_dir' = dir
             /\ file_badges' = r.file_badges
             /\ error' = r.error
             /\ missing_files' =
                  IF r.error # "None" THEN Unset
                  ELSE [t |-> "list", l |-> MissingFilesFrom(1, r.file_badges.l)]
    /\ pc' = "completeness"
    /\ UNCHANGED <<env, exc, loaded, by_badge, missing_badges, incomplete, invalid,
                   all_passed, summary, final_locals, output, norm>>

\* 3. DATA COMPLETENESS VERIFICATION
Completeness ==
    /\ pc = "completeness" /\ exc = "none"
    /\ incomplete' = IncompleteFrom(1, by_badge)
    /\ pc' = "validity"
    /\ UNCHANGED <<env, exc, loaded, by_badge, missing_badges, qr_dir, file_badges, error,
                   missing_files, invalid, all_passed, summary, final_locals, output, norm>>

\* 4. DATA VALIDITY VERIFICATION
Validity ==
    /\ pc = "validity" /\ exc = "none"
    /\ invalid' = InvalidFrom(1, by_badge)
    /\ pc' = "samples"
    /\ UNCHANGED <<env, exc, loaded, by_badge, missing_badges, qr_dir, file_badges, error,
                   missing_files, incomplete, all_passed, summary, final_locals, output, norm>>

\* 5. SAMPLE PARTICIPANT DETAILS: slicing the uuid of a sampled record raises
\* when the uuid is None
Samples ==
    /\ pc = "samples" /\ exc = "none"
    /\ IF SampleRaises(by_badge)
       THEN exc' = "TypeError" /\ UNCHANGED pc
       ELSE pc' = "summary" /\ UNCHANGED exc
    /\ UNCHANGED <<env, loaded, all_locals, final_locals, output, norm>>

\* the QR-file line of the summary: "ok" and "missing" are printed, and a
\* file_badges that is None or empty prints nothing
FilesLine(fb) ==
    IF fb.t = "list" /\ fb.l # <<>> /\ MissingFilesFrom(1, fb.l) = <<>> THEN "ok"
    ELSE IF fb.t = "list" /\ fb.l # <<>> THEN "missing"
    ELSE "silent"

\* VERIFICATION SUMMARY: all_passed and the printed lines
Summary ==
    /\ pc = "summary" /\ exc = "none"
    /\ all_passed' =
         /\ missing_badges = <<>>
         /\ FilesLine(file_badges) # "missing"
         /\ incomplete = <<>>
         /\ invalid = <<>>
    /\ summary' =
         [badges |-> IF missing_badges # <<>> THEN "missing" ELSE "ok",
          files |-> FilesLine(file_badges),
          completeness |-> IF incomplete # <<>> THEN "incomplete" ELSE "ok",
          validity |-> IF invalid # <<>> THEN "invalid" ELSE "ok",
          verdict |-> IF all_passed' THEN "ALL VERIFICATIONS PASSED"
                      ELSE "SOME VERIFICATIONS FAILED"]
    /\ pc' = "write"
    /\ UNCHANGED <<env, exc, loaded, by_badge, missing_badges, qr_dir, file_badges, error,
                   missing_files, incomplete, invalid, final_locals, output, norm>>

\* the report dict and its file: open() or json.dump failing raises out of main
WriteReport ==
    /\ pc = "write" /\ exc = "none"
    /\ report' = [total_participants |-> Len(participants),
                  missing_badges |-> missing_badges,
                  incomplete_data |-> incomplete,
                  invalid_data |-> invalid,
                  all_passed |-> all_passed]
    /\ \E ok \in BOOLEAN :
         IF ok THEN report_file' = report' /\ pc' = "done" /\ UNCHANGED exc
         ELSE exc' = "OSError" /\ UNCHANGED <<pc, report_file>>
    /\ UNCHANGED <<env, loaded, all_locals, final_locals, norm>>

NextAll ==
    \/ Load \/ Index \/ Presence \/ FileCheck \/ Completeness \/ Validity \/ Samples
    \/ Summary \/ WriteReport

InitAll ==
    /\ db \in Loaded(RecordsAll, MaxRecords)
    /\ sheet = <<>> /\ photo_col = TRUE
    /\ pc = "load"
    /\ Unbound /\ NoNorm

InitValidity ==
    /\ db \in Loaded(RecordsValidity, MaxValidityRecords)
    /\ sheet = <<>> /\ photo_col = TRUE
    /\ pc = "load"
    /\ Unbound /\ NoNorm

\* verify_all_participants.py over token and completeness cases
Spec == InitAll /\ [][NextAll]_vars

\* verify_all_participants.py over uuid and age cases
SpecValidity == InitValidity /\ [][NextAll]_vars

----------------------------------------------------------------------------
(* verify_final_data.main *)

\* excel_df = load_excel_final_data(); db_participants = load_database_participants()
FinalLoad ==
    /\ pc = "final_load" /\ exc = "none"
    /\ excel_df' = sheet
    /\ participants' = db
    /\ pc' = "final_compare"
    /\ UNCHANGED <<env, exc, all_locals, final_locals, output, norm>>

\* discrepancies, matches = compare_data(excel_df, db_participants)
CompareData ==
    /\ pc = "final_compare" /\ exc = "none"
    /\ LET r == IndexRecords(participants, 1, EmptyDict)
       IN  IF r.exc # "none"
           THEN /\ exc' = r.exc
                /\ UNCHANGED <<pc, by_badge, discrepancies, matches, row_issues>>
           ELSE LET c == CompareRows(excel_df, 1, r.index, photo_col)
                IN  /\ by_badge' = r.index
                    /\ discrepancies' = c.discrepancies
                    /\ matches' = c.matches
                    /\ row_issues' = c.row_issues
                    /\ pc' = "final_print"
                    /\ UNCHANGED exc
    /\ UNCHANGED <<env, loaded, missing_badges, qr_dir, file_badges, error, missing_files,
                   incomplete, invalid, all_passed, summary, returned, output, norm>>

\* VERIFICATION RESULTS: the counts and every discrepancy are printed
PrintResults ==
    /\ pc = "final_print" /\ exc = "none"
    /\ summary' = [matches |-> matches, discrepancies |-> discrepancies]
    /\ pc' = "final_write"
    /\ UNCHANGED <<env, exc, loaded, by_badge, missing_badges, qr_dir, file_badges, error,
                   missing_files, incomplete, invalid, all_passed, final_locals, output, norm>>

\* the report dict and its file, then return discrepancies; open() or
\* json.dump failing raises out of main
FinalWriteReport ==
    /\ pc = "final_write" /\ exc = "none"
    /\ report' = [total_excel_records |-> Len(excel_df),
                  total_db_records |-> Len(participants),
                  matches |-> matches,
                  discrepancies_count |-> Len(discrepancies),
                  discrepancies |-> discrepancies]
    /\ \E ok \in BOOLEAN :
         IF ok
         THEN report_file' = report' /\ returned' = discrepancies /\ pc' = "final_done"
              /\ UNCHANGED exc
         ELSE exc' = "OSError" /\ UNCHANGED <<pc, report_file, returned>>
    /\ UNCHANGED <<env, loaded, all_locals, discrepancies, matches, row_issues, norm>>

NextFinal == FinalLoad \/ CompareData \/ PrintResults \/ FinalWriteReport

InitFinal ==
    /\ db \in Loaded(RecordsFinal, MaxRecords)
    /\ sheet \in Sheets(RowsFinal, MaxRows)
    /\ photo_col = TRUE
    /\ pc = "final_load"
    /\ Unbound /\ NoNorm

InitFields ==
    /\ db \in {<<p>> : p \in RecordsFields}
    /\ sheet \in Sheets(RowsFields, MaxFieldRows)
    /\ photo_col \in BOOLEAN
    /\ pc = "final_load"
    /\ Unbound /\ NoNorm

\* verify_final_data.py over sheets of several rows
SpecFinal == InitFinal /\ [][NextFinal]_vars

\* verify_final_data.py over the cells of a row
SpecFields == InitFields /\ [][NextFinal]_vars

----------------------------------------------------------------------------
(* The normalizers applied once and twice *)

Normalize(fn, x) ==
    CASE fn = "name" -> normalize_name(x)
      [] fn = "phone" -> normalize_phone(x)
      [] fn = "blood" -> normalize_blood_group(x)

ApplyNormalizer ==
    /\ pc = "normalize" /\ exc = "none"
    /\ norm_once' = Normalize(norm_fn, norm_x)
    /\ norm_twice' = Normalize(norm_fn, StrV(norm_once'))
    /\ pc' = "normalized"
    /\ UNCHANGED <<env, exc, loaded, all_locals, final_locals, output, norm_fn, norm_x>>

NextNorm == ApplyNormalizer

InitNorm ==
    /\ db = <<>> /\ sheet = <<>> /\ photo_col = TRUE
    /\ pc = "normalize"
    /\ Unbound
    /\ norm_fn \in {"name", "phone", "blood"}
    /\ norm_x \in NormInputs(norm_fn)

SpecNorm == InitNorm /\ [][NextNorm]_vars

----------------------------------------------------------------------------
(* Positions of a run *)

Indexed1 == pc \in {"presence", "files", "completeness", "validity", "samples", "summary",
                    "write", "done"}
Validated == pc \in {"samples", "summary", "write", "done"}
Summarised == pc \in {"write", "done"}
Compared == pc \in {"final_print", "final_write", "final_done"}
JustCompared == pc = "final_print"

\* the entries of a finding list for one badge
EntriesFor(list, b) == SelectSeq(list, LAMBDA e : e.badge = b)

\* a list of findings ordered by ascending badge
Ascending(list) == \A i, j \in 1..Len(list) : i < j => list[i].badge <= list[j].badge

----------------------------------------------------------------------------
(* C1 *)

\* the missing-file findings of the file check (none when the directory was
\* not found and the check was skipped)
MissingFileFindings == IF missing_files.t = "list" THEN missing_files.l ELSE <<>>

\* C1: once the summary is printed, all_passed is true if and only if there is
\* no missing badge, no badge of the cohort without a QR file, no incomplete
\* and no invalid record.
C1_AllPassedIffNoFindings ==
    Summarised =>
        (all_passed <=> /\ missing_badges = <<>>
                        /\ MissingFileFindings = <<>>
                        /\ incomplete = <<>>
                        /\ invalid = <<>>)

----------------------------------------------------------------------------
(* C2 *)

\* C2: extract_badge_number returns the embedded number or None for every
\* token and never raises, so building the badge index from the loaded
\* records never ends the run (in either script).
C2_KeyDerivationTotal == pc \in {"index", "final_compare"} => exc = "none"

----------------------------------------------------------------------------
(* C3 *)

\* C3: after the index is built, no exception ends the run before the
\* VERIFICATION SUMMARY is printed, whatever the fields of the records hold.
C3_SummaryAlwaysPrinted ==
    pc \in {"presence", "files", "completeness", "validity", "samples", "summary"}
        => exc = "none"

----------------------------------------------------------------------------
(* C4 *)

\* C4: a report file that cannot be written does not fail the run: no run of
\* either script ends with an exception in its write step.
C4_WriteFailureNotFatal == pc \in {"write", "final_write"} => exc = "none"

----------------------------------------------------------------------------
(* C6 *)

\* C6: each normalizer is idempotent: applied to its own result it returns
\* that result, for every text, number and missing value.
C6_NormalizersIdempotent == pc = "normalized" => norm_twice = norm_once

\* normalize_name and normalize_blood_group taken alone
NameAndBloodIdempotent ==
    (pc = "normalized" /\ norm_fn \in {"name", "blood"}) => norm_twice = norm_once

----------------------------------------------------------------------------
(* C9 *)

\* the three finding lists of verify_all_participants are in ascending badge order
AllListsAscending ==
    Validated =>
        /\ \A i, j \in 1..Len(missing_badges) : i < j => missing_badges[i] < missing_badges[j]
        /\ Ascending(incomplete)
        /\ Ascending(invalid)

\* C9: the findings of every category are in ascending badge order, whatever
\* order the sources delivered their records in: the three lists of
\* verify_all_participants and the discrepancies of compare_data.
C9_FindingsAscending ==
    /\ AllListsAscending
    /\ Compared => Ascending(discrepancies)

----------------------------------------------------------------------------
(* C7 *)

\* the three rules of the validity check, stated on the record's fields
UuidWellFormed(uuid) ==
    /\ uuid.t = "str"
    /\ Len(uuid.s) = UuidLen
    /\ Cardinality({i \in 1..Len(uuid.s) : uuid.s[i] = "-"}) = UuidDashes
TokenIsFor(token, b) == token.t = "str" /\ token.s = PREFIX \o IntToStr(b)
AgeNumber(age) ==
    IF age.t = "int" THEN {age.n}
    ELSE IF age.t = "str" /\ age.s # <<>> /\ IsDigitStr(age.s) THEN {DigitsValue(age.s)}
    ELSE {}
AgeAccepted(age) == age.t = "none" \/ \E k \in MinAge..MaxAge : k \in AgeNumber(age)

\* one issue per violated rule, in the order uuid, qrToken, age
ExpectedIssues(b, p) ==
    (IF ~UuidWellFormed(p.uuid) THEN <<"invalid UUID">> ELSE <<>>)
    \o (IF ~TokenIsFor(p.qrToken, b) THEN <<"wrong qrToken">> ELSE <<>>)
    \o (IF AgeAccepted(p.age) THEN <<>>
        ELSE IF AgeNumber(p.age) = {} THEN <<"non-numeric age">>
        ELSE <<"invalid age">>)

\* C7: after the validity check, an indexed badge of the cohort has an
\* INVALID_DATA finding iff its record breaks a rule (uuid shape, qrToken equal
\* to the badge's token, age null or an integer in 1..120); the finding lists
\* exactly one issue per broken rule; ages 1 and 120 pass, 0 and 121 do not;
\* no other badge has a finding.
C7_ValidityFindings ==
    Validated =>
        /\ \A b \in Cohort \cap DOMAIN by_badge :
              EntriesFor(invalid, b) =
                 IF ExpectedIssues(b, by_badge[b]) = <<>> THEN <<>>
                 ELSE <<[badge |-> b, name |-> by_badge[b].name,
                         issues |-> ExpectedIssues(b, by_badge[b])]>>
        /\ \A k \in 1..Len(invalid) : invalid[k].badge \in Cohort \cap DOMAIN by_badge
        /\ AgeAccepted(IntV(MinAge)) /\ AgeAccepted(IntV(MaxAge))
        /\ ~AgeAccepted(IntV(MinAge - 1)) /\ ~AgeAccepted(IntV(MaxAge + 1))

\* a record with the right token, age 120 and a uuid one character short has
\* one finding, citing the uuid only
C7_ShortUuidOnly ==
    /\ pc = "done"
    /\ 1 \in DOMAIN by_badge
    /\ by_badge[1].uuid.t = "str" /\ Len(by_badge[1].uuid.s) = UuidLen - 1
    /\ by_badge[1].qrToken = ExpectedToken(1)
    /\ by_badge[1].age = IntV(MaxAge)
    /\ EntriesFor(invalid, 1) =
          <<[badge |-> 1, name |-> by_badge[1].name, issues |-> <<"invalid UUID">>]>>

----------------------------------------------------------------------------
(* C8 *)

\* what the token of each record derives, and the records deriving badge b
Derived(ps) == [i \in 1..Len(ps) |-> extract_badge_number(ps[i].qrToken)]
DerivingIn(d, b) == {i \in DOMAIN d : d[i] = IntV(b)}
Deriving(ps, b) == DerivingIn(Derived(ps), b)

\* the records without record i
Without(ps, i) == SubSeq(ps, 1, i - 1) \o SubSeq(ps, i + 1, Len(ps))

\* the classification and the findings of badge c under another index, given
\* by its three lists, are those of the run
SameAt(c, by, missing, incompl, inval) ==
    /\ (c \in DOMAIN by) <=> (c \in DOMAIN by_badge)
    /\ InList(c, missing) <=> InList(c, missing_badges)
    /\ EntriesFor(incompl, c) = EntriesFor(incomplete, c)
    /\ EntriesFor(inval, c) = EntriesFor(invalid, c)
SameElsewhere(badges, by) ==
    LET missing == MissingFrom(1, by)
        incompl == IncompleteFrom(1, by)
        inval == InvalidFrom(1, by)
    IN  \A c \in badges : SameAt(c, by, missing, incompl, inval)

\* a record for badge b
RecordFor(b, pr) ==
    Participant(Token(IntToStr(b)), pr.uuid, pr.name, PyNone, PyNone, PyNone, PyNone)

\* the findings of the badges other than b are those of the run when a record
\* is taken away or a record for a missing badge is added
OthersUnaffected ==
    /\ LET d == Derived(participants)
       IN  \A i \in 1..Len(participants) :
              SameElsewhere({c \in Cohort : d[i] # IntV(c)},
                            IndexRecords(Without(participants, i), 1, EmptyDict).index)
    /\ \A b \in Cohort :
          InList(b, missing_badges) =>
             \A pr \in ProfilesAll :
                SameElsewhere(Cohort \ {b}, IndexPut(by_badge, b, RecordFor(b, pr)))

\* C8: every badge of the cohort is either in the index or in missing_badges,
\* never both; missing_badges holds exactly the badges no loaded record derives;
\* a missing badge has no INCOMPLETE_DATA and no INVALID_DATA finding; taking
\* one record away, or adding a record for a missing badge, leaves the
\* classification and the findings of every other badge as the checks left them.
C8_PresenceClassification ==
    /\ Validated =>
          /\ LET d == Derived(participants)
             IN  \A b \in Cohort : InList(b, missing_badges) <=> DerivingIn(d, b) = {}
          /\ \A b \in Cohort :
                /\ (b \in DOMAIN by_badge) # InList(b, missing_badges)
                /\ InList(b, missing_badges) =>
                      EntriesFor(incomplete, b) = <<>> /\ EntriesFor(invalid, b) = <<>>
          /\ \A k \in 1..Len(missing_badges) : missing_badges[k] \in Cohort
    /\ pc = "samples" => OthersUnaffected

\* badge 2 has no record and badge 1 has a record with findings
C8_OneBadgeMissing ==
    /\ pc = "done"
    /\ missing_badges = <<CohortSize>>
    /\ Len(participants) = MaxRecords
    /\ EntriesFor(incomplete, 1) # <<>>
    /\ EntriesFor(invalid, 1) # <<>>

----------------------------------------------------------------------------
(* C10 *)

\* the last record in load order whose token derives badge b
LastIn(d, b) == CHOOSE i \in DerivingIn(d, b) : \A j \in DerivingIn(d, b) : j <= i

\* the badges the loaded records derive, 0 left out
DerivedBadges(d) == {d[i].n : i \in {j \in DOMAIN d : d[j].t = "int" /\ d[j].n # 0}}

\* the index holds, for each derived badge other than 0, the last record deriving it
IndexHoldsLast(d) ==
    /\ DOMAIN by_badge = DerivedBadges(d)
    /\ \A b \in DOMAIN by_badge : by_badge[b] = participants[LastIn(d, b)]

\* the completeness and validity findings of badge b are those of one record
FindingsOf(b, last) ==
    /\ EntriesFor(incomplete, b) =
          IF MissingFields(last) = <<>> THEN <<>>
          ELSE <<[badge |-> b, name |-> last.name, fields |-> MissingFields(last)]>>
    /\ EntriesFor(invalid, b) =
          IF ValidityIssues(b, last) = <<>> THEN <<>>
          ELSE <<[badge |-> b, name |-> last.name, issues |-> ValidityIssues(b, last)]>>
    /\ ~InList(b, missing_badges)
FindingsOfLast(d) ==
    \A b \in Cohort \cap DOMAIN by_badge : FindingsOf(b, participants[LastIn(d, b)])

RowsUseLast(d) ==
    \A i \in 1..Len(excel_df) :
        row_issues[i].t = "list" =>
           row_issues[i].l =
              RowIssues(excel_df[i], participants[LastIn(d, RowBadge(excel_df[i]).n)],
                        photo_col)
ComparisonUsesLast ==
    Compared =>
        LET d == Derived(participants)
        IN  IndexHoldsLast(d) /\ RowsUseLast(d)

----------------------------------------------------------------------------
(* C5 *)

\* the rows compared with a DB record, and the record of such a row
ComparedRows == {i \in 1..Len(excel_df) : row_issues[i].t = "list"}
RecordOf(i) == by_badge[RowBadge(excel_df[i]).n]

\* the messages a field can contribute to the list "issues"
MessagesOf(field) ==
    CASE field = "name" -> {"Name mismatch"}
      [] field = "age" -> {"Age mismatch", "Age missing in DB"}
      [] field = "blood" -> {"Blood group mismatch"}
      [] field = "emergency" -> {"Emergency contact mismatch"}
      [] field = "photo" -> {"Photo missing in DB"}
Fields == {"name", "age", "blood", "emergency", "photo"}
Reported(i, field) == \E k \in 1..Len(row_issues[i].l) : row_issues[i].l[k] \in MessagesOf(field)

\* the cell of a field in a roster row; a sheet without the sixth column has
\* no photo cell
CellOf(row, field) ==
    CASE field = "name" -> row.name
      [] field = "age" -> row.age
      [] field = "blood" -> row.blood
      [] field = "emergency" -> row.emergency
      [] field = "photo" -> IF photo_col THEN row.photo ELSE NaN

\* the roster cell holds a non-empty value
CellHasValue(row, field) == CellText(CellOf(row, field)) # <<>>

\* the roster value the comparison uses: the age as a number, the emergency
\* contact normalized, the other cells as text
RosterHasValue(row, field) ==
    CASE field = "age" -> ExcelAge(row.age) # PyNone
      [] field = "emergency" -> normalize_phone(row.emergency) # <<>>
      [] OTHER -> CellHasValue(row, field)

\* the DB record holds a value for the field
DbHasValue(p, field) ==
    CASE field = "name" -> DbText(p.name) # <<>>
      [] field = "age" -> p.age # PyNone
      [] field = "blood" -> DbText(p.bloodGroup) # <<>>
      [] field = "emergency" -> normalize_phone(p.emergencyContact) # <<>>
      [] field = "photo" -> DbText(p.photoUri) # <<>>

\* the DATA_MISMATCH finding of row i carries the row's issues
FindingOf(i) ==
    \E k \in 1..Len(discrepancies) :
        /\ discrepancies[k].issue = "DATA_MISMATCH"
        /\ discrepancies[k].badge = RowBadge(excel_df[i]).n
        /\ discrepancies[k].details = row_issues[i].l

\* C5 as stated: for each of the five fields of a compared row (name, age,
\* blood group, emergency contact, photo), a roster without a value for the
\* field against a DB value gives no message for the field, and a roster value
\* against a DB record without the value gives a message in the badge's
\* DATA_MISMATCH finding.
C5_ToleranceForEveryField ==
    JustCompared =>
        \A i \in ComparedRows : \A f \in Fields :
            /\ (~RosterHasValue(excel_df[i], f) /\ DbHasValue(RecordOf(i), f)) =>
                  ~Reported(i, f)
            /\ (RosterHasValue(excel_df[i], f) /\ ~DbHasValue(RecordOf(i), f)) =>
                  Reported(i, f) /\ FindingOf(i)

\* C5 amended: the tolerance covers age, blood group, emergency contact and
\* photo, not the name: without a roster value these four fields give no
\* message, while a roster row without a name against a DB name gives "Name
\* mismatch" in the badge's DATA_MISMATCH finding. For all five fields a roster
\* value against a DB record without the value gives a message in that finding.
C5_ToleranceExceptName ==
    JustCompared =>
        \A i \in ComparedRows :
            /\ \A f \in Fields \ {"name"} :
                  ~RosterHasValue(excel_df[i], f) => ~Reported(i, f)
            /\ (~RosterHasValue(excel_df[i], "name") /\ DbHasValue(RecordOf(i), "name")) =>
                  Reported(i, "name") /\ FindingOf(i)
            /\ \A f \in Fields :
                  (RosterHasValue(excel_df[i], f) /\ ~DbHasValue(RecordOf(i), f)) =>
                     Reported(i, f) /\ FindingOf(i)

\* an empty roster row against a DB record with every value is reported for
\* its name only
C5_NameOnlyReported ==
    /\ pc = "final_done"
    /\ Len(excel_df) = MaxFieldRows
    /\ \A f \in Fields : ~RosterHasValue(excel_df[1], f) /\ DbHasValue(by_badge[1], f)
    /\ row_issues[1] = [t |-> "list", l |-> <<"Name mismatch">>]
    /\ FindingOf(1)

\* a full roster row against a DB record without values is reported for every
\* field
AllFieldsReported ==
    /\ pc = "final_done"
    /\ Len(excel_df) = MaxFieldRows
    /\ photo_col
    /\ \A f \in Fields : RosterHasValue(excel_df[1], f) /\ ~DbHasValue(by_badge[1], f)
    /\ row_issues[1] =
          [t |-> "list",
           l |-> <<"Name mismatch", "Age missing in DB", "Blood group mismatch",
                   "Emergency contact mismatch", "Photo missing in DB">>]
    /\ FindingOf(1)

=============================================================================
